---- MODULE Spec2Model ----
(***************************************************************************)
(* Model of src/homework/clean_data.py: the 'fingerprint' text clustering  *)
(* pipeline run by main(): load_data, create_normalized_key,                *)
(* generate_cleaned_text, the diagnostic dump files/test.csv, save_data.   *)
(*                                                                         *)
(* A text is a sequence of one-character strings.  A cell of a DataFrame   *)
(* column is either a text or the missing value NaN.  A DataFrame is a     *)
(* function from column names to columns (sequences of cells of the same   *)
(* length); row i of the frame is the i-th cell of every column.           *)
(***************************************************************************)
EXTENDS Naturals, Sequences, FiniteSets

VARIABLES pc, input, df, files, err

vars == <<pc, input, df, files, err>>

(***************************************************************************)
(* Bounds of the model.                                                    *)
(***************************************************************************)
\* longest raw_text of the two-row frames of SpecKey
MaxLen == 3
\* most rows of a frame of Spec
MaxRows == 2
\* longest raw_text of the frames of Spec
MaxCellLen == 1

(***************************************************************************)
(* Characters.  The model's alphabet has two lowercase letters, one        *)
(* uppercase letter, one whitespace character, the hyphen and one more     *)
(* punctuation character.                                                  *)
(***************************************************************************)
Alphabet == {"a", "s", "A", " ", "-", "."}

Whitespace == {" "}

\* the third argument of str.maketrans at line 80 (without the grave accent,
\* which a TLA+ string cannot hold and which is not in Alphabet)
Punctuation ==
    {"!", "\"", "#", "$", "%", "&", "'", "(", ")", "*", "+", ",", "-", ".",
     "/", ":", ";", "<", "=", ">", "?", "@", "[", "\\", "]", "^", "_", "{",
     "|", "}", "~"}

\* code point of a character of the alphabet: Python compares str by code point
Ord(c) ==
    CASE c = " " -> 32
      [] c = "-" -> 45
      [] c = "." -> 46
      [] c = "A" -> 65
      [] c = "a" -> 97
      [] c = "s" -> 115

\* str.lower on one character
LowerChar(c) == IF c = "A" THEN "a" ELSE c

\* Python's < on str: lexicographic by code point, a proper prefix is smaller
RECURSIVE StrLess(_, _)
StrLess(s, t) ==
    IF t = <<>> THEN FALSE
    ELSE IF s = <<>> THEN TRUE
    ELSE IF Head(s) = Head(t) THEN StrLess(Tail(s), Tail(t))
    ELSE Ord(Head(s)) < Ord(Head(t))

(***************************************************************************)
(* Cells.                                                                  *)
(***************************************************************************)
NaN == [na |-> TRUE, s |-> <<>>]

Str(s) == [na |-> FALSE, s |-> s]

\* the order sort_values uses on a column: texts ascending, NaN last
CellLess(a, b) ==
    IF a.na THEN FALSE
    ELSE IF b.na THEN TRUE
    ELSE StrLess(a.s, b.s)

(***************************************************************************)
(* create_normalized_key, step by step on one text.                        *)
(***************************************************************************)
RECURSIVE LStrip(_)
LStrip(s) ==
    IF s # <<>> /\ Head(s) \in Whitespace THEN LStrip(Tail(s)) ELSE s

RECURSIVE RStrip(_)
RStrip(s) ==
    IF s # <<>> /\ s[Len(s)] \in Whitespace
    THEN RStrip(SubSeq(s, 1, Len(s) - 1))
    ELSE s

\* .str.strip()
StrStrip(s) == RStrip(LStrip(s))

\* .str.lower()
StrLower(s) == [i \in 1..Len(s) |-> LowerChar(s[i])]

\* .str.replace(old, new) for a one-character old
RECURSIVE StrReplace(_, _, _)
StrReplace(s, old, new) ==
    IF s = <<>> THEN <<>>
    ELSE (IF Head(s) = old THEN new ELSE <<Head(s)>>)
         \o StrReplace(Tail(s), old, new)

\* .str.replace("-", " "): a space for the hyphen
StrReplaceHyphenBySpace(s) == StrReplace(s, "-", <<" ">>)

\* .str.replace("-", "")
StrReplaceHyphen(s) == StrReplace(s, "-", <<>>)

\* a translation table that forgets the characters after the hyphen
StrTranslateHyphenOnly(s) == SelectSeq(s, LAMBDA c : c # "-")

\* .str.translate(str.maketrans("", "", Punctuation))
StrTranslate(s) == SelectSeq(s, LAMBDA c : c \notin Punctuation)

\* the first token of s, which starts with a non-whitespace character
RECURSIVE FirstToken(_)
FirstToken(s) ==
    IF s = <<>> \/ Head(s) \in Whitespace THEN <<>>
    ELSE <<Head(s)>> \o FirstToken(Tail(s))

\* str.split(" "): every single space separates, empty tokens are kept
RECURSIVE StrSplitSingleSpace(_)
StrSplitSingleSpace(s) ==
    LET tok == FirstToken(s)
    IN  IF Len(tok) = Len(s) THEN <<tok>>
        ELSE <<tok>> \o StrSplitSingleSpace(SubSeq(s, Len(tok) + 2, Len(s)))

\* .str.split(): split on runs of whitespace, no empty tokens
RECURSIVE StrSplit(_)
StrSplit(s) ==
    LET t == LStrip(s)
        tok == FirstToken(t)
    IN  IF t = <<>> THEN <<>>
        ELSE <<tok>> \o StrSplit(SubSeq(t, Len(tok) + 1, Len(t)))

EndsWith(w, suffix) ==
    /\ Len(w) >= Len(suffix)
    /\ SubSeq(w, Len(w) - Len(suffix) + 1, Len(w)) = suffix

ReplaceSuffix(w, suffix, replacement) ==
    SubSeq(w, 1, Len(w) - Len(suffix)) \o replacement

\* step 1a of the Porter stemmer (NLTK_EXTENSIONS mode): the first matching
\* rule of ies -> ie (four-letter words), sses -> ss, ies -> i, ss -> ss, s ->
Step1a(w) ==
    IF EndsWith(w, <<"i", "e", "s">>) /\ Len(w) = 4
        THEN ReplaceSuffix(w, <<"i", "e", "s">>, <<"i", "e">>)
    ELSE IF EndsWith(w, <<"s", "s", "e", "s">>)
        THEN ReplaceSuffix(w, <<"s", "s", "e", "s">>, <<"s", "s">>)
    ELSE IF EndsWith(w, <<"i", "e", "s">>)
        THEN ReplaceSuffix(w, <<"i", "e", "s">>, <<"i">>)
    ELSE IF EndsWith(w, <<"s", "s">>) THEN w
    ELSE IF EndsWith(w, <<"s">>) THEN ReplaceSuffix(w, <<"s">>, <<>>)
    ELSE w

\* stemmer.stem(word) of nltk.PorterStemmer(): the word is lowercased, a word
\* of at most two characters is returned as it is, a longer one goes through
\* steps 1a..5b.  On words over the letters of Alphabet only step 1a applies:
\* every rule of steps 1b..5b needs a letter other than a and s.
PorterStem(word) ==
    LET stem == StrLower(word)
    IN  IF Len(word) <= 2 THEN stem ELSE Step1a(stem)

\* [stemmer.stem(word) for word in x]
StemTokens(x) == [i \in 1..Len(x) |-> PorterStem(x[i])]

\* set(x)
ToSet(x) == {x[i] : i \in 1..Len(x)}

\* sorted(S) for a set of texts
RECURSIVE Sorted(_)
Sorted(S) ==
    IF S = {} THEN <<>>
    ELSE LET m == CHOOSE u \in S : \A v \in S : ~StrLess(v, u)
         IN  <<m>> \o Sorted(S \ {m})

\* the tokens as they are, neither deduplicated nor sorted
KeepTokens(x) == x

\* sorted(set(x))
SortedSet(x) == Sorted(ToSet(x))

\* .str.join(" ")
RECURSIVE StrJoin(_)
StrJoin(x) ==
    IF x = <<>> THEN <<>>
    ELSE IF Len(x) = 1 THEN Head(x)
    ELSE Head(x) \o <<" ">> \o StrJoin(Tail(x))

\* lines 66..85: the token list of a text
KeyTokens(text) ==
    StrSplit(StrTranslate(StrReplaceHyphen(StrLower(StrStrip(text)))))

\* lines 66..98 on one text
ComputeKey(text) == StrJoin(SortedSet(StemTokens(KeyTokens(text))))

(***************************************************************************)
(* DataFrame operations.                                                   *)
(***************************************************************************)
\* the frame with no column: the value of df before load_data has run
EmptyFrame == [c \in {} |-> <<>>]

\* len(tbl)
NRows(tbl) == LET c == CHOOSE c \in DOMAIN tbl : TRUE IN Len(tbl[c])

\* tbl.iloc[idx]: the rows of tbl at the positions idx, in the order of idx
SelectRows(tbl, idx) ==
    [c \in DOMAIN tbl |-> [k \in 1..Len(idx) |-> tbl[c][idx[k]]]]

\* tbl[name] = col
WithColumn(tbl, name, col) ==
    [c \in DOMAIN tbl \cup {name} |-> IF c = name THEN col ELSE tbl[c]]

\* tbl[[names]]
Project(tbl, names) == [c \in names |-> tbl[c]]

\* row i comes strictly before row j in the order of the columns by
RECURSIVE RowLess(_, _, _, _)
RowLess(tbl, by, i, j) ==
    IF by = <<>> THEN FALSE
    ELSE LET a == tbl[Head(by)][i]
             b == tbl[Head(by)][j]
         IN  IF a = b THEN RowLess(tbl, Tail(by), i, j) ELSE CellLess(a, b)

\* idx is sorted; puts row n after every row that is not greater than it
RECURSIVE InsertRow(_, _, _, _)
InsertRow(tbl, by, idx, n) ==
    IF idx = <<>> THEN <<n>>
    ELSE IF RowLess(tbl, by, n, Head(idx)) THEN <<n>> \o idx
    ELSE <<Head(idx)>> \o InsertRow(tbl, by, Tail(idx), n)

RECURSIVE SortedRows(_, _, _)
SortedRows(tbl, by, n) ==
    IF n = 0 THEN <<>>
    ELSE InsertRow(tbl, by, SortedRows(tbl, by, n - 1), n)

\* tbl.sort_values(by=by, ascending=True)
SortValues(tbl, by) == SelectRows(tbl, SortedRows(tbl, by, NRows(tbl)))

\* the positions 1..n in ascending order
Positions(n) == [i \in 1..n |-> i]

\* tbl.drop_duplicates(subset=subset, keep=False): no row of a repeated value
DropDuplicatesKeepNone(tbl, subset) ==
    LET col == tbl[subset]
    IN  SelectRows(tbl, SelectSeq(Positions(Len(col)),
            LAMBDA i : \A j \in 1..Len(col) : j # i => col[j] # col[i]))

\* tbl.drop_duplicates(subset=subset, keep="first")
DropDuplicates(tbl, subset) ==
    LET col == tbl[subset]
    IN  SelectRows(tbl, SelectSeq(Positions(Len(col)),
            LAMBDA i : \A j \in 1..(i - 1) : col[j] # col[i]))

\* dict(zip(ks, ks)): every key mapped to itself
DictZipKeys(ks, vs) == [k \in ToSet(ks) |-> k]

\* dict(zip(ks, vs)): a key that occurs twice keeps its last value
DictZip(ks, vs) ==
    [k \in ToSet(ks) |->
        vs[CHOOSE i \in 1..Len(ks) :
            /\ ks[i] = k
            /\ \A j \in (i + 1)..Len(ks) : ks[j] # k]]

\* the value only on the first row of each key, NaN on the other rows
SeriesMapFirstOnly(col, d) ==
    [i \in 1..Len(col) |->
        IF col[i] \in DOMAIN d /\ \A j \in 1..(i - 1) : col[j] # col[i]
        THEN d[col[i]] ELSE NaN]

\* col.map(d): NaN for a value that is no key of d
SeriesMap(col, d) ==
    [i \in 1..Len(col) |-> IF col[i] \in DOMAIN d THEN d[col[i]] ELSE NaN]

(***************************************************************************)
(* The functions of clean_data.py on frames.                               *)
(***************************************************************************)
\* only the missing column raises; a NaN cell is carried through
KeyErrorOnly(tbl) ==
    IF "raw_text" \notin DOMAIN tbl THEN "KeyError" ELSE "none"

\* the exception create_normalized_key raises on tbl, "none" when it returns:
\* df["raw_text"] raises KeyError without the column (line 62); a column of
\* NaN only is a float64 column, on which .str raises AttributeError (line
\* 66); next to texts a NaN goes through the .str methods as NaN and the
\* comprehension of line 90 raises TypeError on it
KeyRaises(tbl) ==
    IF "raw_text" \notin DOMAIN tbl THEN "KeyError"
    ELSE LET col == tbl["raw_text"]
         IN  IF col # <<>> /\ \A i \in 1..Len(col) : col[i].na
                 THEN "AttributeError"
             ELSE IF \E i \in 1..Len(col) : col[i].na THEN "TypeError"
             ELSE "none"

\* create_normalized_key(df) when it returns
NormalizedKeyFrame(tbl) ==
    WithColumn(tbl, "key",
        [i \in 1..Len(tbl["raw_text"]) |->
            LET cell == tbl["raw_text"][i]
            IN  IF cell.na THEN NaN ELSE Str(ComputeKey(cell.s))])

\* generate_cleaned_text that sorts df itself by key and raw_text
CleanedTextFrameSorted(tbl) ==
    LET sorted == SortValues(tbl, <<"key", "raw_text">>)
        keys == DropDuplicates(sorted, "key")
        key_dict == DictZip(keys["key"], keys["raw_text"])
    IN  WithColumn(sorted, "cleaned_text", SeriesMap(sorted["key"], key_dict))

\* generate_cleaned_text(df): the frame sorted at line 120 is overwritten at
\* line 125 by the duplicates dropped from df in its original order
CleanedTextFrame(tbl) ==
    LET keys0 == tbl
        keys1 == SortValues(keys0, <<"key", "raw_text">>)
        keys == DropDuplicates(tbl, "key")
        key_dict == DictZip(keys["key"], keys["raw_text"])
    IN  WithColumn(tbl, "cleaned_text", SeriesMap(tbl["key"], key_dict))

\* to_csv(path): the file at path holds the frame
WriteCsv(fs, path, tbl) ==
    [p \in DOMAIN fs \cup {path} |-> IF p = path THEN tbl ELSE fs[p]]

(***************************************************************************)
(* Inputs.                                                                 *)
(***************************************************************************)
\* the texts of at most n characters
Texts(n) == UNION {[1..k -> Alphabet] : k \in 0..n}

\* the text t with the character c put after its first p characters
InsertAt(t, p, c) == SubSeq(t, 1, p) \o <<c>> \o SubSeq(t, p + 1, Len(t))

\* the texts one inserted character away from t
Insertions(t) == {InsertAt(t, p, c) : p \in 0..Len(t), c \in Alphabet}

\* the cells of a column read from a file: a text of Texts(n) or NaN
Cells(n) == {Str(t) : t \in Texts(n)} \cup {NaN}

(***************************************************************************)
(* main(input_file, output_file), one action per statement.                *)
(***************************************************************************)
\* load_data can return a frame with the column raw_text or a frame whose
\* only column has another name, of at most MaxRows rows
Init ==
    /\ pc = "start"
    /\ \E k \in 0..MaxRows : \E col \in [1..k -> Cells(MaxCellLen)] :
        \E name \in {"raw_text", "text"} :
            input = [c \in {name} |-> col]
    /\ df = EmptyFrame
    /\ files = EmptyFrame
    /\ err = "none"

\* a frame of two rows of texts, as load_data has returned it: the second
\* text is any text of the bound or the first one with a character inserted
InitKey ==
    /\ pc = "loaded"
    /\ \E t \in Texts(MaxLen) :
        \E u \in Texts(MaxLen) \cup Insertions(t) :
            input = [raw_text |-> <<Str(t), Str(u)>>]
    /\ df = input
    /\ files = EmptyFrame
    /\ err = "none"

\* line 173: df = load_data(input_file)
LoadData ==
    /\ pc = "start"
    /\ df' = input
    /\ pc' = "loaded"
    /\ UNCHANGED <<input, files, err>>

\* line 176: df = create_normalized_key(df); an exception ends the run
CreateNormalizedKey ==
    /\ pc = "loaded"
    /\ IF KeyRaises(df) = "none"
       THEN /\ df' = NormalizedKeyFrame(df)
            /\ pc' = "keyed"
            /\ err' = err
       ELSE /\ err' = KeyRaises(df)
            /\ pc' = "failed"
            /\ df' = df
    /\ UNCHANGED <<input, files>>

\* line 179: df = generate_cleaned_text(df)
GenerateCleanedText ==
    /\ pc = "keyed"
    /\ df' = CleanedTextFrame(df)
    /\ pc' = "cleaned"
    /\ UNCHANGED <<input, files, err>>

\* line 182: df.to_csv("files/test.csv", index=False)
SaveTest ==
    /\ pc = "cleaned"
    /\ files' = WriteCsv(files, "files/test.csv", df)
    /\ pc' = "dumped"
    /\ UNCHANGED <<input, df, err>>

\* line 185: save_data(df, output_file)
SaveData ==
    /\ pc = "dumped"
    /\ files' = WriteCsv(files, "files/output.txt",
                         Project(df, {"raw_text", "cleaned_text"}))
    /\ pc' = "saved"
    /\ UNCHANGED <<input, df, err>>

\* line 188: the frame is shown on the console
ShowResult ==
    /\ pc = "saved"
    /\ pc' = "done"
    /\ UNCHANGED <<input, df, files, err>>

Next ==
    \/ LoadData
    \/ CreateNormalizedKey
    \/ GenerateCleanedText
    \/ SaveTest
    \/ SaveData
    \/ ShowResult

Spec == Init /\ [][Next]_vars

NextKey == CreateNormalizedKey

SpecKey == InitKey /\ [][NextKey]_vars

(***************************************************************************)
(* Properties.                                                             *)
(***************************************************************************)
\* create_normalized_key has returned: df has the column key
Keyed == pc \in {"keyed", "cleaned", "dumped", "saved", "done"}

\* generate_cleaned_text has returned: df has the column cleaned_text
Cleaned == pc \in {"cleaned", "dumped", "saved", "done"}

\* the rows of df
Rows == 1..NRows(df)

\* the frame load_data returned lacks raw_text on some record or altogether
MissingRawText ==
    \/ "raw_text" \notin DOMAIN input
    \/ \E i \in 1..Len(input["raw_text"]) : input["raw_text"][i].na

\* the keys of df are pairwise different
UniqueKeys ==
    \A i \in Rows : \A j \in Rows : df["key"][i] = df["key"][j] => i = j

\* C1: the representative of every key is the lexicographically smallest
\* raw_text among the records that have the key: it is the raw_text of one
\* of them and no raw_text of the group is smaller.
C1_SmallestRawText ==
    Cleaned =>
        \A i \in Rows :
            /\ \E j \in Rows :
                /\ df["key"][j] = df["key"][i]
                /\ df["raw_text"][j] = df["cleaned_text"][i]
            /\ \A j \in Rows :
                df["key"][j] = df["key"][i]
                    => ~CellLess(df["raw_text"][j], df["cleaned_text"][i])

\* C2: after generate_cleaned_text any two records with the same key have
\* the same cleaned_text.
C2_GroupConsistency ==
    Cleaned =>
        \A i \in Rows : \A j \in Rows :
            df["key"][i] = df["key"][j]
                => df["cleaned_text"][i] = df["cleaned_text"][j]

C2_Witness ==
    /\ Cleaned
    /\ \E i \in Rows : \E j \in Rows :
        /\ df["key"][i] = df["key"][j]
        /\ df["raw_text"][i] # df["raw_text"][j]

\* C3: after generate_cleaned_text the cleaned_text of every record is not
\* missing and is the raw_text of a record of the frame with the same key.
C3_GenuineInput ==
    Cleaned =>
        \A i \in Rows :
            /\ ~df["cleaned_text"][i].na
            /\ \E j \in Rows :
                /\ df["key"][j] = df["key"][i]
                /\ df["raw_text"][j] = df["cleaned_text"][i]

C3_Witness ==
    /\ Cleaned
    /\ \E i \in Rows : df["cleaned_text"][i] # df["raw_text"][i]

\* the set of the stems of the tokens of a text
StemSet(text) == ToSet(StemTokens(KeyTokens(text)))

\* C4: two texts get the same key exactly when the sets of the stems of
\* their tokens are equal; word order and repeated words do not matter.
C4_KeyIffStemSets ==
    pc = "keyed" =>
        \A i \in Rows : \A j \in (i + 1)..NRows(df) :
            (df["key"][i] = df["key"][j])
                <=> (StemSet(df["raw_text"][i].s) = StemSet(df["raw_text"][j].s))

\* two texts of the same words in another order
C4_Witness ==
    /\ pc = "keyed"
    /\ df["raw_text"][1].s = <<"s", " ", "a">>
    /\ df["raw_text"][2].s = <<"a", " ", "s">>
    /\ df["key"][1] = df["key"][2]

\* u is t with the case of some of its letters changed
CaseVariant(t, u) ==
    /\ Len(t) = Len(u)
    /\ t # u
    /\ \A p \in 1..Len(t) : t[p] = u[p] \/ {t[p], u[p]} = {"a", "A"}

\* u is t with one whitespace character added at the start, at the end or
\* next to a whitespace character of t
WhitespaceVariant(t, u) ==
    /\ Len(u) = Len(t) + 1
    /\ \E p \in 0..Len(t) : \E w \in Whitespace :
        /\ \/ p = 0
           \/ p = Len(t)
           \/ t[p] \in Whitespace
           \/ t[p + 1] \in Whitespace
        /\ u = InsertAt(t, p, w)

\* C5: the key does not change when the case of letters changes or when
\* whitespace is added at the start, at the end or inside a run of whitespace.
C5_CaseWhitespaceInvariant ==
    pc = "keyed" =>
        \A i \in Rows : \A j \in Rows :
            \/ CaseVariant(df["raw_text"][i].s, df["raw_text"][j].s)
            \/ WhitespaceVariant(df["raw_text"][i].s, df["raw_text"][j].s)
            => df["key"][i] = df["key"][j]

\* a space added to the run between two words
C5_Witness ==
    /\ pc = "keyed"
    /\ df["raw_text"][1].s = <<"A", " ", "s">>
    /\ df["raw_text"][2].s = <<"A", " ", " ", "s">>
    /\ df["key"][1] = df["key"][2]

\* u is t with a hyphen or a punctuation character put inside a word
PunctuationVariant(t, u) ==
    /\ Len(u) = Len(t) + 1
    /\ \E p \in 1..(Len(t) - 1) : \E c \in Punctuation \cap Alphabet :
        /\ t[p] \notin Whitespace
        /\ t[p + 1] \notin Whitespace
        /\ u = InsertAt(t, p, c)

\* C6: a hyphen or a punctuation character put inside a word, or taken out
\* of it, leaves the key unchanged and the number of tokens too.
C6_PunctuationDeleted ==
    pc = "keyed" =>
        \A i \in Rows : \A j \in Rows :
            PunctuationVariant(df["raw_text"][i].s, df["raw_text"][j].s)
                => /\ df["key"][i] = df["key"][j]
                   /\ Len(KeyTokens(df["raw_text"][i].s))
                        = Len(KeyTokens(df["raw_text"][j].s))

\* the hyphenated word and the word without the hyphen
C6_Witness ==
    /\ pc = "keyed"
    /\ df["raw_text"][1].s = <<"a", "s">>
    /\ df["raw_text"][2].s = <<"a", "-", "s">>
    /\ df["key"][2] = Str(<<"a", "s">>)

\* a text of whitespace and removed punctuation only, the empty text included
Degenerate(t) == \A p \in 1..Len(t) : t[p] \in Whitespace \cup Punctuation

\* the first row of df with the key k
FirstRow(k) ==
    CHOOSE i \in Rows : df["key"][i] = k /\ \A j \in 1..(i - 1) : df["key"][j] # k

\* C7: on a frame of texts create_normalized_key raises nothing; the key of
\* an empty, whitespace-only or punctuation-only text is the empty text; and
\* the records with the empty key get, as every group does, the raw_text of the
\* first record of the group.
C7_DegenerateTexts ==
    /\ pc = "failed" => MissingRawText
    /\ Keyed =>
        \A i \in Rows :
            (~df["raw_text"][i].na /\ Degenerate(df["raw_text"][i].s))
                => df["key"][i] = Str(<<>>)
    /\ Cleaned =>
        \A i \in Rows :
            df["cleaned_text"][i] = df["raw_text"][FirstRow(df["key"][i])]

\* two different degenerate texts grouped under the empty key
C7_Witness ==
    /\ Cleaned
    /\ \E i \in Rows : \E j \in Rows :
        /\ df["raw_text"][i] # df["raw_text"][j]
        /\ Degenerate(df["raw_text"][i].s)
        /\ Degenerate(df["raw_text"][j].s)
        /\ df["key"][i] = Str(<<>>)
        /\ df["cleaned_text"][i] = df["cleaned_text"][j]

\* C8: when raw_text is missing on a record or as a column, the run ends in
\* create_normalized_key with an exception: it never gets past that call and
\* no file is written.
C8_MissingRawTextIsFatal ==
    MissingRawText =>
        /\ pc \in {"start", "loaded", "failed"}
        /\ pc = "failed" => err # "none"
        /\ DOMAIN files = {}

\* a NaN next to a text: the run has failed at the comprehension of line 90
C8_Witness ==
    /\ pc = "failed"
    /\ err = "TypeError"
    /\ DOMAIN files = {}

\* C9: when every record has a key of its own, every record gets its own
\* raw_text as cleaned_text, and raw_text and the row order are the input's,
\* in df and in the output file.
C9_UniqueKeysUnchanged ==
    (Cleaned /\ UniqueKeys) =>
        /\ df["raw_text"] = input["raw_text"]
        /\ df["cleaned_text"] = input["raw_text"]
        /\ pc \in {"saved", "done"} =>
            /\ files["files/output.txt"]["raw_text"] = input["raw_text"]
            /\ files["files/output.txt"]["cleaned_text"] = input["raw_text"]

\* two records with different keys, one of them not its own key
C9_Witness ==
    /\ pc = "saved"
    /\ UniqueKeys
    /\ NRows(df) >= 2
    /\ \E i \in Rows : df["raw_text"][i] # df["key"][i]

\* C10: the output has one row per input record, in the input's order and
\* with the input's raw_text; no step reorders, drops, duplicates or rewrites
\* a record.
C10_RowsPreserved ==
    /\ (pc \notin {"start", "failed"} /\ "raw_text" \in DOMAIN input) =>
        /\ df["raw_text"] = input["raw_text"]
        /\ \A c \in DOMAIN df : Len(df[c]) = Len(input["raw_text"])
    /\ pc \in {"saved", "done"} =>
        /\ DOMAIN files["files/output.txt"] = {"raw_text", "cleaned_text"}
        /\ files["files/output.txt"]["raw_text"] = input["raw_text"]
        /\ Len(files["files/output.txt"]["cleaned_text"])
            = Len(input["raw_text"])

\* an input whose rows are not in the order of key and raw_text
C10_Witness ==
    /\ pc = "saved"
    /\ SortValues(df, <<"key", "raw_text">>) # df
    /\ files["files/output.txt"]["raw_text"] = input["raw_text"]

====
